---- MODULE Spec2Model ----
(***************************************************************************)
(* Model of TaskOperations (CodeDeployDeployApplication/TaskOperations.ts): *)
(* one invocation of execute(), which probes the CodeDeploy application,   *)
(* the deployment group and (for an S3 revision) the bundle object, then   *)
(* uploads the workspace bundle or takes the given key, creates the        *)
(* deployment, publishes the deployment id and waits for the deployment.   *)
(*                                                                         *)
(* Strings that the code takes apart (paths, object keys) are sequences of *)
(* one-character strings.  Every awaited call is one action; the           *)
(* synchronous code that follows a call up to the next await is part of    *)
(* the same action.  pc is the position of execute().                      *)
(***************************************************************************)
EXTENDS Integers, Sequences, FiniteSets, TLC

VARIABLES
    taskParameters,     \* this.taskParameters (readonly)
    bundleKind,         \* what tl.stats finds at revisionBundle: dir, file, missing
    files,              \* local files that exist
    pc,                 \* position of execute()
    error,              \* the Error execute() rejected with, NoError if none
    bundleKey,          \* execute(): let bundleKey
    deploymentId,       \* execute(): const deploymentId
    archiveName,        \* uploadBundle(): let archiveName
    autoCreatedArchive, \* uploadBundle(): let autoCreatedArchive
    waiter,             \* the waiter started by waitFor: params and attempts made
    calls,              \* the external calls made so far, in order, with their outcome
    revisionPaths,      \* the cases of execute()'s switch that were run
    statted,            \* paths handed to tl.stats
    uploads,            \* requests handed to s3Client.upload, with their outcome
    unlinked,           \* paths handed to fs.unlinkSync, with their outcome
    deployments,        \* requests handed to createDeployment, with their outcome
    taskVariables,      \* tl.setVariable calls: <<name, value>>
    console             \* keys of the messages written with console.log / console.error

vars == <<taskParameters, bundleKind, files, pc, error, bundleKey, deploymentId,
          archiveName, autoCreatedArchive, waiter, calls, revisionPaths, statted, uploads,
          unlinked, deployments, taskVariables, console>>

----------------------------------------------------------------------------
(* Bounds of the model. *)

\* timeoutInMins ranges over 0 .. MaxTimeoutEighths eighths of a minute
\* (and the default timeout).
MaxTimeoutEighths == 12

\* new Date().getTime() returns one of MaxTimestamps timestamps.
MaxTimestamps == 2

----------------------------------------------------------------------------
(* Constants of the program. *)

\* TaskParameters.revisionSourceFromWorkspace / revisionSourceFromS3
revisionSourceFromWorkspace == "workspace"
revisionSourceFromS3 == "s3"

\* TaskParameters.defaultTimeoutInMins, in minutes
defaultTimeoutInMins == 30

\* Timeouts are held in eighths of a minute, so that fractional minutes (and
\* the ties of Math.round) are exact, as they are in binary floating point.
TimeoutDenominator == 8

\* "this magic number comes from the code deploy client attempting every 15 seconds"
SecondsPerMinute == 60
SecondsPerAttempt == 15

\* response.deploymentId when the service returns none
Undefined == "<undefined>"

NoError == [type |-> "none", names |-> <<>>, cause |-> ""]

----------------------------------------------------------------------------
(* String helpers: path.basename, path.extname, path.join, toLowerCase. *)

Lower(c) ==
    CASE c = "A" -> "a" [] c = "G" -> "g" [] c = "I" -> "i" [] c = "P" -> "p"
      [] c = "R" -> "r" [] c = "T" -> "t" [] c = "Z" -> "z" [] OTHER -> c

toLowerCase(s) == [i \in 1..Len(s) |-> Lower(s[i])]

\* the path without its trailing separators
RECURSIVE StripTrailingSep(_)
StripTrailingSep(p) ==
    IF Len(p) > 1 /\ p[Len(p)] = "/" THEN StripTrailingSep(SubSeq(p, 1, Len(p) - 1))
    ELSE p

\* index of the last occurrence of c in s, 0 when there is none
LastIndexOf(s, c) ==
    LET hits == {i \in 1..Len(s) : s[i] = c}
    IN  IF hits = {} THEN 0 ELSE CHOOSE i \in hits : \A j \in hits : j <= i

\* path.basename (posix)
basename(p) ==
    LET q == StripTrailingSep(p)
        k == LastIndexOf(q, "/")
    IN  IF q = <<"/">> THEN <<>> ELSE SubSeq(q, k + 1, Len(q))

\* path.extname: from the last "." of the last path component to its end; empty
\* when there is no "." or the only "." starts the component
extname(p) ==
    CHOOSE ext \in
        { LET k == LastIndexOf(b, ".")
          IN  IF k <= 1 \/ b = <<".", ".">> THEN <<>> ELSE SubSeq(b, k, Len(b)) :
            b \in {basename(p)} } : TRUE

\* path.join of a normalized directory and a file name
join(dir, name) == dir \o <<"/">> \o name

----------------------------------------------------------------------------
(* The inputs of one invocation. *)

applicationName == <<"a", "p", "p">>
deploymentGroupName == <<"g">>
bucketName == <<"b", "k", "t">>

\* SdkUtils.getTempLocation()
tempDir == <<"/", "t">>

RevisionSources == {revisionSourceFromWorkspace, revisionSourceFromS3, "other"}

BundlePaths == { <<"w", "/", "d">>,
                 <<"w", "/", "b", ".", "T", "G", "Z">>,
                 <<"b", ".", "t", "a", "r">> }

BundleKeys == { <<"b", "u", "n", "d", "l", "e", ".", "t", "a", "r">>,
                <<"b", "u", "n", "d", "l", "e", ".", "T", "G", "Z">>,
                <<"b", "u", "n", "d", "l", "e">>,
                <<"b", "u", "n", "d", "l", "e", ".">>,
                <<"k", ".", "x", "/", "b">> }

BundlePrefixes == { <<>>, <<"p">> }

OutputVariables == { <<>>, <<"o", "u", "t">> }

FilesAcls == { "", "none", "private" }

\* timeouts, in eighths of a minute
Timeouts == (0..MaxTimeoutEighths)
            \cup {defaultTimeoutInMins * TimeoutDenominator, 5 * TimeoutDenominator}

BundleKinds == {"dir", "file", "missing"}

\* what createDeployment answers as response.deploymentId
DeploymentIds == {Undefined, "d-1"}

\* new Date().getTime(), as decimal digits: 123, 1234, ...
Timestamps == { SubSeq(<<"1", "2", "3", "4", "5", "6", "7", "8", "9">>, 1, n + 2) :
                  n \in 1..MaxTimestamps }

----------------------------------------------------------------------------
(* Errors. *)

Err(type, names, cause) == [type |-> type, names |-> names, cause |-> cause]

\* execute() rejects with e: nothing after the throw runs
Throw(e) == /\ pc' = "failed"
            /\ error' = e

\* an external call and whether it returned (ok) or threw
Call(op, ok) == [op |-> op, ok |-> ok]

----------------------------------------------------------------------------
(* Construction. *)

\* The parameters of a run.  The parameters that the revision source of the run
\* never reads (the object key of a workspace revision; the bundle path, the
\* prefix and the ACL of an S3 revision) are held at one value; what is at the
\* bundle path varies in every run.
TaskParameterSets ==
    [ applicationName : {applicationName},
      deploymentGroupName : {deploymentGroupName},
      deploymentRevisionSource : {revisionSourceFromWorkspace},
      revisionBundle : BundlePaths,
      bucketName : {bucketName},
      bundleKey : {<<"b">>},
      bundlePrefix : BundlePrefixes,
      filesAcl : FilesAcls,
      outputVariable : OutputVariables,
      timeoutInMins : Timeouts ]
    \cup
    [ applicationName : {applicationName},
      deploymentGroupName : {deploymentGroupName},
      deploymentRevisionSource : RevisionSources \ {revisionSourceFromWorkspace},
      revisionBundle : {<<"w", "/", "d">>},
      bucketName : {bucketName},
      bundleKey : BundleKeys,
      bundlePrefix : {<<>>},
      filesAcl : {""},
      outputVariable : OutputVariables,
      timeoutInMins : Timeouts ]

Init ==
    /\ taskParameters \in TaskParameterSets
    /\ bundleKind \in BundleKinds
    /\ files = IF bundleKind = "file" THEN {taskParameters.revisionBundle} ELSE {}
    /\ pc = "getApplication"
    /\ error = NoError
    /\ bundleKey = <<>>
    /\ deploymentId = ""
    /\ archiveName = <<>>
    /\ autoCreatedArchive = FALSE
    /\ waiter = [started |-> FALSE, deploymentId |-> "", maxAttempts |-> 0,
                 attempts |-> 0, result |-> "none", cause |-> ""]
    /\ calls = <<>>
    /\ revisionPaths = {}
    /\ statted = <<>>
    /\ uploads = <<>>
    /\ unlinked = <<>>
    /\ deployments = <<>>
    /\ taskVariables = <<>>
    /\ console = {}

----------------------------------------------------------------------------
(* execute(), lines 31-41: the switch on the revision source, run when      *)
(* verifyResourcesExist() has returned.                                     *)

\* variant: the workspace case takes the key without awaiting the upload
SwitchRevisionSource_NoUpload ==
    CASE taskParameters.deploymentRevisionSource = revisionSourceFromWorkspace ->
            /\ revisionPaths' = revisionPaths \cup {"uploadBundle"}
            /\ bundleKey' = basename(taskParameters.revisionBundle)
            /\ pc' = "deployRevision"
            /\ UNCHANGED error
      [] taskParameters.deploymentRevisionSource = revisionSourceFromS3 ->
            /\ revisionPaths' = revisionPaths \cup {"bundleKey"}
            /\ bundleKey' = taskParameters.bundleKey
            /\ pc' = "deployRevision"
            /\ UNCHANGED error
      [] OTHER ->
            /\ Throw(Err("UnknownRevisionSource", <<>>, taskParameters.deploymentRevisionSource))
            /\ UNCHANGED <<bundleKey, revisionPaths>>

\* variant: every revision source is packaged and uploaded
SwitchRevisionSource_AlwaysUpload ==
    /\ revisionPaths' = revisionPaths \cup {"uploadBundle"}
    /\ pc' = "uploadBundle"
    /\ UNCHANGED <<bundleKey, error>>

\* variant: the switch has no default case, any other source takes the given key
SwitchRevisionSource_NoDefault ==
    CASE taskParameters.deploymentRevisionSource = revisionSourceFromWorkspace ->
            /\ revisionPaths' = revisionPaths \cup {"uploadBundle"}
            /\ pc' = "uploadBundle"
            /\ UNCHANGED <<bundleKey, error>>
      [] OTHER ->
            /\ revisionPaths' = revisionPaths \cup {"bundleKey"}
            /\ bundleKey' = taskParameters.bundleKey
            /\ pc' = "deployRevision"
            /\ UNCHANGED error

SwitchRevisionSource ==
    CASE taskParameters.deploymentRevisionSource = revisionSourceFromWorkspace ->
            /\ revisionPaths' = revisionPaths \cup {"uploadBundle"}
            /\ pc' = "uploadBundle"
            /\ UNCHANGED <<bundleKey, error>>
      [] taskParameters.deploymentRevisionSource = revisionSourceFromS3 ->
            /\ revisionPaths' = revisionPaths \cup {"bundleKey"}
            /\ bundleKey' = taskParameters.bundleKey
            /\ pc' = "deployRevision"
            /\ UNCHANGED error
      [] OTHER ->
            /\ Throw(Err("UnknownRevisionSource", <<>>, taskParameters.deploymentRevisionSource))
            /\ UNCHANGED <<bundleKey, revisionPaths>>

----------------------------------------------------------------------------
(* verifyResourcesExist() *)

\* variant: the catch of getApplication swallows the error
GetApplication_Swallowed ==
    /\ pc = "getApplication"
    /\ \E ok \in BOOLEAN :
         /\ calls' = Append(calls, Call("getApplication", ok))
         /\ pc' = "getDeploymentGroup"
         /\ UNCHANGED error
    /\ UNCHANGED <<taskParameters, bundleKind, files, bundleKey, deploymentId, archiveName,
                   autoCreatedArchive, waiter, revisionPaths, statted, uploads, unlinked,
                   deployments, taskVariables, console>>

\* lines 60-66
GetApplication ==
    /\ pc = "getApplication"
    /\ \E ok \in BOOLEAN :
         /\ calls' = Append(calls, Call("getApplication", ok))
         /\ IF ok THEN /\ pc' = "getDeploymentGroup"
                       /\ UNCHANGED error
            ELSE Throw(Err("ApplicationDoesNotExist", <<taskParameters.applicationName>>, ""))
    /\ UNCHANGED <<taskParameters, bundleKind, files, bundleKey, deploymentId, archiveName,
                   autoCreatedArchive, waiter, revisionPaths, statted, uploads, unlinked,
                   deployments, taskVariables, console>>

\* variant: the object is probed whatever the revision source is
GetDeploymentGroup_AlwaysHead ==
    /\ pc = "getDeploymentGroup"
    /\ \E ok \in BOOLEAN :
         /\ calls' = Append(calls, Call("getDeploymentGroup", ok))
         /\ IF ~ok
            THEN Throw(Err("DeploymentGroupDoesNotExist",
                           <<taskParameters.deploymentGroupName,
                             taskParameters.applicationName>>, ""))
            ELSE /\ pc' = "headObject"
                 /\ UNCHANGED error
    /\ UNCHANGED <<taskParameters, bundleKind, files, bundleKey, deploymentId, archiveName,
                   autoCreatedArchive, waiter, revisionPaths, statted, uploads, unlinked,
                   deployments, taskVariables, console>>

\* lines 68-85
GetDeploymentGroup ==
    /\ pc = "getDeploymentGroup"
    /\ \E ok \in BOOLEAN :
         /\ calls' = Append(calls, Call("getDeploymentGroup", ok))
         /\ IF ~ok
            THEN /\ Throw(Err("DeploymentGroupDoesNotExist",
                              <<taskParameters.deploymentGroupName,
                                taskParameters.applicationName>>, ""))
                 /\ UNCHANGED <<bundleKey, revisionPaths>>
            ELSE IF taskParameters.deploymentRevisionSource = revisionSourceFromS3
                 THEN /\ pc' = "headObject"
                      /\ UNCHANGED <<bundleKey, error, revisionPaths>>
                 ELSE SwitchRevisionSource
    /\ UNCHANGED <<taskParameters, bundleKind, files, deploymentId, archiveName,
                   autoCreatedArchive, waiter, statted, uploads, unlinked, deployments,
                   taskVariables, console>>

\* lines 85-98
HeadObject ==
    /\ pc = "headObject"
    /\ \E ok \in BOOLEAN :
         /\ calls' = Append(calls, Call("headObject", ok))
         /\ IF ~ok
            THEN /\ Throw(Err("RevisionBundleDoesNotExist",
                              <<taskParameters.bundleKey, taskParameters.bucketName>>, ""))
                 /\ UNCHANGED <<bundleKey, revisionPaths>>
            ELSE SwitchRevisionSource
    /\ UNCHANGED <<taskParameters, bundleKind, files, deploymentId, archiveName,
                   autoCreatedArchive, waiter, statted, uploads, unlinked, deployments,
                   taskVariables, console>>

----------------------------------------------------------------------------
(* uploadBundle() and createDeploymentArchive() *)

\* lines 102-112: tl.stats throws when nothing is at the path
StatBundle ==
    /\ pc = "uploadBundle"
    /\ calls' = Append(calls, Call("stats", bundleKind # "missing"))
    /\ statted' = Append(statted, taskParameters.revisionBundle)
    /\ CASE bundleKind = "missing" ->
              /\ Throw(Err("StatsError", <<taskParameters.revisionBundle>>, "ENOENT"))
              /\ UNCHANGED <<autoCreatedArchive, archiveName>>
         [] bundleKind = "dir" ->
              /\ autoCreatedArchive' = TRUE
              /\ pc' = "createDeploymentArchive"
              /\ UNCHANGED <<archiveName, error>>
         [] OTHER ->
              /\ archiveName' = taskParameters.revisionBundle
              /\ pc' = "upload"
              /\ UNCHANGED <<autoCreatedArchive, error>>
    /\ UNCHANGED <<taskParameters, bundleKind, files, bundleKey, deploymentId, waiter,
                   revisionPaths, uploads, unlinked, deployments, taskVariables, console>>

\* lines 156-158: the archive's path
ArchivePath(appName, timestamp) ==
    join(tempDir, appName \o <<".", "v">> \o timestamp \o <<".", "z", "i", "p">>)

\* lines 151-173; a writeZip that throws may leave a partial file behind
CreateDeploymentArchive ==
    /\ pc = "createDeploymentArchive"
    /\ \E timestamp \in Timestamps, ok \in BOOLEAN :
         LET archive == ArchivePath(taskParameters.applicationName, timestamp)
         IN  /\ calls' = Append(calls, Call("createDeploymentArchive", ok))
             /\ IF ok
                THEN /\ files' = files \cup {archive}
                     /\ archiveName' = archive
                     /\ console' = console \cup {"CreatedBundleArchive"}
                     /\ pc' = "upload"
                     /\ UNCHANGED error
                ELSE /\ \E partial \in BOOLEAN :
                          files' = IF partial THEN files \cup {archive} ELSE files
                     /\ console' = console \cup {"ZipError"}
                     /\ Throw(Err("ZipError", <<archive>>, "zip"))
                     /\ UNCHANGED archiveName
    /\ UNCHANGED <<taskParameters, bundleKind, bundleKey, deploymentId, autoCreatedArchive,
                   waiter, revisionPaths, statted, uploads, unlinked, deployments,
                   taskVariables>>

\* variant: the key is built from the whole archive path
UploadKey_FullPath(prefix, archive) ==
    IF prefix # <<>> THEN prefix \o <<"/">> \o archive ELSE archive

\* lines 114-120: the destination object key
UploadKey(prefix, archive) ==
    IF prefix # <<>> THEN prefix \o <<"/">> \o basename(archive) ELSE basename(archive)

\* lines 125-133: the PutObjectRequest; ACL "" stands for a request without ACL
UploadRequest(key) ==
    [ Bucket |-> taskParameters.bucketName,
      Key |-> key,
      Body |-> archiveName,
      ACL |-> IF taskParameters.filesAcl # "" /\ taskParameters.filesAcl # "none"
              THEN taskParameters.filesAcl ELSE "" ]

\* variant: unlinkSync runs in a try of its own, whose catch only logs
UploadReturns_IgnoresUnlink(uploaded, removed) == uploaded

\* lines 124-148: uploadBundle returns the key when neither upload() nor
\* unlinkSync() threw; the catch rethrows either error
UploadReturns(uploaded, removed) == uploaded /\ removed

\* variant: the uploaded file is removed whether or not this run created it
UnlinkAttempted_AnyFile(uploaded) == uploaded

\* variant: the archive is removed in a finally block, whatever upload() did
UnlinkAttempted_Finally(uploaded) == autoCreatedArchive

\* lines 135-142: unlinkSync runs when upload() has resolved and this run
\* created the archive
UnlinkAttempted(uploaded) == uploaded /\ autoCreatedArchive

\* lines 114-149: the upload, and on success the removal of an archive this run
\* created.  An error of upload() or of unlinkSync() is logged and rethrown.
Upload ==
    /\ pc = "upload"
    /\ \E uploaded \in BOOLEAN :
       \E removed \in (IF UnlinkAttempted(uploaded) THEN BOOLEAN ELSE {TRUE}) :
         LET key == UploadKey(taskParameters.bundlePrefix, archiveName)
             unlinks == UnlinkAttempted(uploaded)
         IN  /\ uploads' = Append(uploads, [request |-> UploadRequest(key), ok |-> uploaded])
             /\ calls' = calls \o <<Call("upload", uploaded)>>
                               \o (IF unlinks THEN <<Call("unlinkSync", removed)>> ELSE <<>>)
             /\ unlinked' = IF unlinks
                            THEN Append(unlinked, [path |-> archiveName, ok |-> removed])
                            ELSE unlinked
             /\ files' = IF unlinks /\ removed THEN files \ {archiveName} ELSE files
             /\ console' = console
                   \cup {"UploadingBundle"}
                   \cup (IF uploaded THEN {"BundleUploadCompleted"} ELSE {})
                   \cup (IF unlinks THEN {"DeletingUploadedBundle"} ELSE {})
                   \cup (IF UploadReturns(uploaded, removed) THEN {} ELSE {"BundleUploadFailed"})
             /\ IF UploadReturns(uploaded, removed)
                THEN /\ bundleKey' = key
                     /\ pc' = "deployRevision"
                     /\ UNCHANGED error
                ELSE /\ Throw(IF ~uploaded THEN Err("UploadError", <<key>>, "upload")
                              ELSE Err("UnlinkError", <<archiveName>>, "unlink"))
                     /\ UNCHANGED bundleKey
    /\ UNCHANGED <<taskParameters, bundleKind, deploymentId, archiveName, autoCreatedArchive,
                   waiter, revisionPaths, statted, deployments, taskVariables>>

----------------------------------------------------------------------------
(* deployRevision() *)

\* variant: an extension of any length is taken, the bare "." included
ArchiveType_AnyLength(key) ==
    CHOOSE archiveType \in
        { IF ext # <<>>
          THEN toLowerCase(SubSeq(ext, 2, Len(ext)))
          ELSE <<"z", "i", "p">> : ext \in {extname(key)} } : TRUE

\* lines 179-187: the bundle type, from the extension of the object key; ext is
\* bound once, as the let of line 179 is
ArchiveType(key) ==
    CHOOSE archiveType \in
        { IF ext # <<>> /\ Len(ext) > 1
          THEN toLowerCase(SubSeq(ext, 2, Len(ext)))
          ELSE <<"z", "i", "p">> : ext \in {extname(key)} } : TRUE

\* variant: the request names the bundleKey parameter, not the resolved key
DeploymentRequest_ParameterKey(key) ==
    [ applicationName |-> taskParameters.applicationName,
      deploymentGroupName |-> taskParameters.deploymentGroupName,
      revisionType |-> "S3",
      bucket |-> taskParameters.bucketName,
      key |-> taskParameters.bundleKey,
      bundleType |-> ArchiveType(taskParameters.bundleKey) ]

\* lines 190-204: the CreateDeploymentInput
DeploymentRequest(key) ==
    [ applicationName |-> taskParameters.applicationName,
      deploymentGroupName |-> taskParameters.deploymentGroupName,
      revisionType |-> "S3",
      bucket |-> taskParameters.bucketName,
      key |-> key,
      bundleType |-> ArchiveType(key) ]

\* variant: the id of the response is returned as it is
ReturnedDeploymentId_Raw(id) == id

\* variant: the id of the response is dropped
ReturnedDeploymentId_Dropped(id) == ""

\* lines 221-225: the deployment id deployRevision returns
ReturnedDeploymentId(id) == IF id = Undefined \/ id = "" THEN "" ELSE id

\* variant: the catch of createDeployment logs the error and returns ''
DeployRevision_Swallowed ==
    /\ pc = "deployRevision"
    /\ \E ok \in BOOLEAN :
         /\ calls' = Append(calls, Call("createDeployment", ok))
         /\ \E id \in (IF ok THEN DeploymentIds ELSE {Undefined}) :
              /\ deployments' = Append(deployments,
                                       [request |-> DeploymentRequest(bundleKey),
                                        ok |-> ok, id |-> id])
              /\ deploymentId' = IF id = Undefined \/ id = "" THEN "" ELSE id
         /\ console' = console \cup {"DeployingRevision"}
                               \cup (IF ok THEN {"DeploymentStarted"} ELSE {"DeploymentError"})
         /\ pc' = "setOutputVariable"
         /\ UNCHANGED error
    /\ UNCHANGED <<taskParameters, bundleKind, files, bundleKey, archiveName,
                   autoCreatedArchive, waiter, revisionPaths, statted, uploads, unlinked,
                   taskVariables>>

\* lines 175-230: createDeployment either throws or answers with a deployment id,
\* which may be missing
DeployRevision ==
    /\ pc = "deployRevision"
    /\ \E ok \in BOOLEAN :
         /\ calls' = Append(calls, Call("createDeployment", ok))
         /\ IF ok
            THEN \E id \in DeploymentIds :
                   /\ deployments' = Append(deployments,
                                            [request |-> DeploymentRequest(bundleKey),
                                             ok |-> TRUE, id |-> id])
                   /\ deploymentId' = ReturnedDeploymentId(id)
                   /\ console' = console \cup {"DeployingRevision", "DeploymentStarted"}
                   /\ pc' = "setOutputVariable"
                   /\ UNCHANGED error
            ELSE /\ deployments' = Append(deployments,
                                          [request |-> DeploymentRequest(bundleKey),
                                           ok |-> FALSE, id |-> Undefined])
                 /\ console' = console \cup {"DeployingRevision", "DeploymentError"}
                 /\ Throw(Err("CreateDeploymentError", <<bundleKey>>, "createDeployment"))
                 /\ UNCHANGED deploymentId
    /\ UNCHANGED <<taskParameters, bundleKind, files, bundleKey, archiveName,
                   autoCreatedArchive, waiter, revisionPaths, statted, uploads, unlinked,
                   taskVariables>>

----------------------------------------------------------------------------
(* execute(), lines 45-48: the output variable *)

\* variant: the output variable is not published before the wait
SetOutputVariable_Skipped ==
    /\ pc = "setOutputVariable"
    /\ pc' = "waitForDeploymentCompletion"
    /\ UNCHANGED <<taskParameters, bundleKind, files, error, bundleKey, deploymentId,
                   archiveName, autoCreatedArchive, waiter, calls, revisionPaths, statted,
                   uploads, unlinked, deployments, taskVariables, console>>

SetOutputVariable ==
    /\ pc = "setOutputVariable"
    /\ IF taskParameters.outputVariable # <<>>
       THEN /\ console' = console \cup {"SettingOutputVariable"}
            /\ taskVariables' = Append(taskVariables,
                                       <<taskParameters.outputVariable, deploymentId>>)
            /\ calls' = Append(calls, Call("setVariable", TRUE))
       ELSE UNCHANGED <<console, taskVariables, calls>>
    /\ pc' = "waitForDeploymentCompletion"
    /\ UNCHANGED <<taskParameters, bundleKind, files, error, bundleKey, deploymentId,
                   archiveName, autoCreatedArchive, waiter, revisionPaths, statted, uploads,
                   unlinked, deployments>>

----------------------------------------------------------------------------
(* waitForDeploymentCompletion() and setWaiterParams() *)

\* Math.round(num / den) for den > 0: the nearest integer, a tie going up
MathRound(num, den) == (2 * num + den) \div (2 * den)

\* variant: the attempts are counted as if the client polled every 10 seconds
setWaiterParams_TenSeconds(id, timeout) ==
    [ deploymentId |-> id,
      maxAttempts |-> MathRound(timeout * SecondsPerMinute, TimeoutDenominator * 10) ]

\* variant: Math.floor in place of Math.round
setWaiterParams_Floor(id, timeout) ==
    [ deploymentId |-> id,
      maxAttempts |-> (timeout * SecondsPerMinute)
                        \div (TimeoutDenominator * SecondsPerAttempt) ]

\* lines 255-269; timeout is in eighths of a minute
setWaiterParams(id, timeout) ==
    [ deploymentId |-> id,
      maxAttempts |-> MathRound(timeout * SecondsPerMinute,
                                TimeoutDenominator * SecondsPerAttempt) ]

\* lines 256-258: the message of setWaiterParams
SetWaiterParamsLog(timeout) ==
    IF timeout # defaultTimeoutInMins * TimeoutDenominator
    THEN {"SettingCustomTimeout"} ELSE {}

\* The waiter that waitFor('deploymentSuccessful', params) starts: it polls the
\* deployment up to maxAttempts times.
WaiterStart(params) ==
    [ started |-> TRUE,
      deploymentId |-> params.deploymentId,
      maxAttempts |-> params.maxAttempts,
      attempts |-> 0,
      result |-> IF params.maxAttempts <= 0 THEN "error" ELSE "none",
      cause |-> IF params.maxAttempts <= 0 THEN "ResourceNotReady" ELSE "" ]

\* lines 237-241
WaitForDeploymentCompletion ==
    /\ pc = "waitForDeploymentCompletion"
    /\ console' = console \cup {"WaitingForDeployment"}
                          \cup SetWaiterParamsLog(taskParameters.timeoutInMins)
    /\ waiter' = WaiterStart(setWaiterParams(deploymentId, taskParameters.timeoutInMins))
    /\ calls' = Append(calls, Call("waitFor", TRUE))
    /\ pc' = "waiting"
    /\ UNCHANGED <<taskParameters, bundleKind, files, error, bundleKey, deploymentId,
                   archiveName, autoCreatedArchive, revisionPaths, statted, uploads,
                   unlinked, deployments, taskVariables>>

\* One poll of the waiter: the deployment has succeeded, has failed, or is still
\* running; the waiter gives up when its last attempt finds it running.
WaiterPoll ==
    /\ pc = "waiting"
    /\ waiter.result = "none"
    /\ waiter.attempts < waiter.maxAttempts
    /\ \E status \in {"Succeeded", "Failed", "InProgress"} :
         LET last == waiter.attempts + 1 >= waiter.maxAttempts
         IN  waiter' = [waiter EXCEPT
                          !.attempts = @ + 1,
                          !.result = CASE status = "Succeeded" -> "success"
                                       [] status = "Failed" -> "error"
                                       [] OTHER -> IF last THEN "error" ELSE "none",
                          !.cause = CASE status = "Succeeded" -> ""
                                      [] status = "Failed" -> "ResourceNotReady: Failed"
                                      [] OTHER -> IF last THEN "ResourceNotReady" ELSE ""]
    /\ UNCHANGED <<taskParameters, bundleKind, files, pc, error, bundleKey, deploymentId,
                   archiveName, autoCreatedArchive, calls, revisionPaths, statted, uploads,
                   unlinked, deployments, taskVariables, console>>

\* variant: the callback does nothing when err is set, the promise stays pending
WaiterCallback_NeverRejects ==
    /\ pc = "waiting"
    /\ waiter.result = "success"
    /\ console' = console \cup {"WaitConditionSatisifed", "TaskCompleted"}
    /\ pc' = "done"
    /\ UNCHANGED error
    /\ UNCHANGED <<taskParameters, bundleKind, files, bundleKey, deploymentId, archiveName,
                   autoCreatedArchive, waiter, calls, revisionPaths, statted, uploads,
                   unlinked, deployments, taskVariables>>

\* variant: the callback resolves whatever err is
WaiterCallback_IgnoresErr ==
    /\ pc = "waiting"
    /\ waiter.result # "none"
    /\ console' = console \cup {"WaitConditionSatisifed", "TaskCompleted"}
    /\ pc' = "done"
    /\ UNCHANGED error
    /\ UNCHANGED <<taskParameters, bundleKind, files, bundleKey, deploymentId, archiveName,
                   autoCreatedArchive, waiter, calls, revisionPaths, statted, uploads,
                   unlinked, deployments, taskVariables>>

\* lines 241-251, and execute() line 56: the callback of waitFor
WaiterCallback ==
    /\ pc = "waiting"
    /\ waiter.result # "none"
    /\ IF waiter.result = "error"
       THEN /\ Throw(Err("DeploymentFailed", <<taskParameters.applicationName>>, waiter.cause))
            /\ UNCHANGED console
       ELSE /\ console' = console \cup {"WaitConditionSatisifed", "TaskCompleted"}
            /\ pc' = "done"
            /\ UNCHANGED error
    /\ UNCHANGED <<taskParameters, bundleKind, files, bundleKey, deploymentId, archiveName,
                   autoCreatedArchive, waiter, calls, revisionPaths, statted, uploads,
                   unlinked, deployments, taskVariables>>

----------------------------------------------------------------------------

Next ==
    \/ GetApplication
    \/ GetDeploymentGroup
    \/ HeadObject
    \/ StatBundle
    \/ CreateDeploymentArchive
    \/ Upload
    \/ DeployRevision
    \/ SetOutputVariable
    \/ WaitForDeploymentCompletion
    \/ WaiterPoll
    \/ WaiterCallback

Spec == Init /\ [][Next]_vars

\* Every external call returns and the event loop runs every continuation that
\* is ready: a step that can be taken is taken.
FairSpec == Spec /\ WF_vars(Next)

----------------------------------------------------------------------------
(* Properties. *)

ProbeOps == {"getApplication", "getDeploymentGroup", "headObject"}
UploadOps == {"stats", "createDeploymentArchive", "upload", "unlinkSync"}

\* the stage of execute() a call belongs to
Stage(op) ==
    CASE op \in ProbeOps -> 1
      [] op \in UploadOps -> 2
      [] op \in {"createDeployment", "setVariable"} -> 3
      [] OTHER -> 4

\* call op was made before the j-th call and returned
ReturnedBefore(op, j) == \E i \in 1..(j - 1) : calls[i] = Call(op, TRUE)

\* the local files before execute() ran
InitialFiles == IF bundleKind = "file" THEN {taskParameters.revisionBundle} ELSE {}

\* C1: the calls of a run are made in stage order (probes, then archive and
\* upload, then createDeployment, then the wait), each call after the one before
\* it has returned: archive creation and upload only after the probes returned,
\* createDeployment only after the upload (when the source is the workspace)
\* returned, the wait and its polls only after createDeployment returned.
C1_StagesInOrder ==
    /\ \A i, j \in 1..Len(calls) : i < j => Stage(calls[i].op) <= Stage(calls[j].op)
    /\ \A i \in 1..(Len(calls) - 1) : calls[i].ok
    /\ \A j \in 1..Len(calls) :
         /\ Stage(calls[j].op) > 1 =>
              /\ ReturnedBefore("getApplication", j)
              /\ ReturnedBefore("getDeploymentGroup", j)
              /\ taskParameters.deploymentRevisionSource = revisionSourceFromS3
                   => ReturnedBefore("headObject", j)
         /\ calls[j].op = "createDeployment"
              /\ taskParameters.deploymentRevisionSource = revisionSourceFromWorkspace
              => ReturnedBefore("upload", j)
         /\ calls[j].op = "waitFor" => ReturnedBefore("createDeployment", j)
    /\ waiter.attempts > 0 =>
         \E j \in 1..Len(calls) : calls[j].op = "waitFor"

\* a run that went through every stage: archive, upload, deployment, polls
C1_Witness ==
    /\ pc = "done"
    /\ taskParameters.deploymentRevisionSource = revisionSourceFromWorkspace
    /\ bundleKind = "dir"
    /\ waiter.attempts >= 2

\* the error execute() throws when a probe fails
ProbeError(op) ==
    CASE op = "getApplication" ->
           Err("ApplicationDoesNotExist", <<taskParameters.applicationName>>, "")
      [] op = "getDeploymentGroup" ->
           Err("DeploymentGroupDoesNotExist",
               <<taskParameters.deploymentGroupName, taskParameters.applicationName>>, "")
      [] OTHER ->
           Err("RevisionBundleDoesNotExist",
               <<taskParameters.bundleKey, taskParameters.bucketName>>, "")

\* C2: when a probe fails, execute() has failed with that probe's error, the
\* failed probe is the last call of the run, and no path was inspected, no
\* archive created, nothing uploaded or deleted, no deployment created, no wait
\* started and no output variable set.
C2_ProbeFailureStopsRun ==
    \A i \in 1..Len(calls) :
        calls[i].op \in ProbeOps /\ ~calls[i].ok =>
            /\ pc = "failed"
            /\ error = ProbeError(calls[i].op)
            /\ i = Len(calls)
            /\ statted = <<>>
            /\ files = InitialFiles
            /\ uploads = <<>>
            /\ unlinked = <<>>
            /\ deployments = <<>>
            /\ ~waiter.started /\ waiter.attempts = 0
            /\ taskVariables = <<>>

\* the application does not exist
C2_Witness ==
    /\ calls = <<Call("getApplication", FALSE)>>
    /\ error.type = "ApplicationDoesNotExist"

\* C3 as stated: once the upload of an auto-created archive has been attempted,
\* the archive is gone exactly when the upload succeeded.
C3_DeletedIffUploaded ==
    autoCreatedArchive /\ uploads # <<>> =>
        (archiveName \notin files <=> uploads[1].ok)

\* C3, amended: once the upload of an auto-created archive has been attempted,
\* the archive is gone exactly when the upload succeeded and unlinkSync then
\* succeeded; after a failed upload no deletion is attempted and the archive
\* still exists; after a successful upload its deletion is attempted once.
C3_DeletedIffUploadedAndUnlinked ==
    autoCreatedArchive /\ uploads # <<>> =>
        /\ archiveName \notin files <=>
             (uploads[1].ok /\ unlinked # <<>> /\ unlinked[1].ok)
        /\ ~uploads[1].ok => unlinked = <<>> /\ archiveName \in files
        /\ uploads[1].ok => Len(unlinked) = 1 /\ unlinked[1].path = archiveName

\* the archive was uploaded and then deleted
C3_Witness ==
    /\ autoCreatedArchive
    /\ uploads # <<>> /\ uploads[1].ok
    /\ archiveName \notin files

\* C4: with the S3 revision source no run inspects the local bundle path,
\* creates an archive, uploads or deletes anything, or changes the local files,
\* whatever is at the bundle path; every createDeployment request carries the
\* bundleKey parameter unchanged.
C4_S3SourceTouchesNothingLocal ==
    taskParameters.deploymentRevisionSource = revisionSourceFromS3 =>
        /\ statted = <<>>
        /\ \A i \in 1..Len(calls) : calls[i].op \notin UploadOps
        /\ uploads = <<>>
        /\ unlinked = <<>>
        /\ files = InitialFiles
        /\ ~autoCreatedArchive
        /\ \A i \in 1..Len(deployments) :
             deployments[i].request.key = taskParameters.bundleKey

\* an S3 revision was deployed while the bundle path is a directory
C4_Witness ==
    /\ taskParameters.deploymentRevisionSource = revisionSourceFromS3
    /\ bundleKind = "dir"
    /\ deployments # <<>> /\ deployments[1].ok
    /\ pc = "done"

\* C5 as stated: the output variable is set only once the wait has succeeded.
\* and in a run where the wait fails it is never set.
C5_OutputOnlyAfterWaitSucceeded ==
    /\ taskVariables # <<>> => waiter.result = "success"
    /\ error.type = "DeploymentFailed" => taskVariables = <<>>

\* C5, amended: the output variable is published after createDeployment has
\* returned and before the wait starts: it is only ever set, once, to the id
\* deployRevision returned, and once the wait has started a configured variable
\* is set, so that it stays set when the wait fails.
C5_OutputSetBeforeWait ==
    /\ taskVariables # <<>> =>
         /\ taskParameters.outputVariable # <<>>
         /\ taskVariables = << <<taskParameters.outputVariable, deploymentId>> >>
         /\ deployments # <<>> /\ deployments[1].ok
    /\ waiter.started /\ taskParameters.outputVariable # <<>> => taskVariables # <<>>
    /\ \A j \in 1..Len(calls) :
         calls[j].op = "waitFor" /\ taskParameters.outputVariable # <<>>
           => ReturnedBefore("setVariable", j)

\* the wait failed and the output variable is set
C5_Witness ==
    /\ pc = "failed"
    /\ error.type = "DeploymentFailed"
    /\ taskVariables # <<>>

\* C6: in a run with a workspace directory where createDeployment answered with
\* id D and the wait has ended having seen success, execute() has completed
\* without error; a configured output variable holds exactly D, and without a
\* configured name no variable is set.
C6_HappyPath ==
    \A D \in DeploymentIds \ {Undefined} :
        /\ taskParameters.deploymentRevisionSource = revisionSourceFromWorkspace
        /\ bundleKind = "dir"
        /\ deployments # <<>> /\ deployments[1].ok /\ deployments[1].id = D
        /\ waiter.result = "success"
        /\ pc # "waiting"
        => /\ pc = "done"
           /\ error = NoError
           /\ "TaskCompleted" \in console
           /\ taskParameters.outputVariable # <<>> =>
                taskVariables = << <<taskParameters.outputVariable, D>> >>
           /\ taskParameters.outputVariable = <<>> => taskVariables = <<>>

\* the run of the scenario: success seen on the third poll
C6_Witness ==
    /\ taskParameters.deploymentRevisionSource = revisionSourceFromWorkspace
    /\ bundleKind = "dir"
    /\ pc = "done"
    /\ waiter.attempts = 3
    /\ taskVariables = << <<taskParameters.outputVariable, "d-1">> >>

\* C7: when the wait has ended with an error (reported by a poll, or attempts
\* exhausted), execute() has failed with one DeploymentFailed error that names
\* the application and carries the waiter's cause; execute() has completed only
\* if the waiter saw success.
C7_WaitFailureFailsRun ==
    /\ waiter.result = "error" /\ pc # "waiting" =>
         /\ pc = "failed"
         /\ error = Err("DeploymentFailed", <<taskParameters.applicationName>>, waiter.cause)
         /\ waiter.cause # ""
    /\ pc = "done" => waiter.result = "success"

\* the attempts were exhausted without seeing success
C7_Witness ==
    /\ pc = "failed"
    /\ error.type = "DeploymentFailed"
    /\ waiter.maxAttempts >= 2
    /\ waiter.attempts = waiter.maxAttempts
    /\ waiter.cause = "ResourceNotReady"

\* C8: createDeployment is called at most once in a run, and the polls made
\* never exceed round(timeoutMinutes * 60 / 15): with the timeout t counted in
\* 1/TimeoutDenominator minutes, a <= round(60 t / (15 d)) says
\* 2 * 15 * d * a <= 2 * 60 * t + 15 * d.
C8_OneDeploymentBoundedPolls ==
    /\ Len(deployments) <= 1
    /\ Cardinality({i \in 1..Len(calls) : calls[i].op = "createDeployment"}) <= 1
    /\ 2 * 15 * TimeoutDenominator * waiter.attempts
         <= 2 * 60 * taskParameters.timeoutInMins + 15 * TimeoutDenominator

\* every attempt of a wait of several attempts was used
C8_Witness ==
    /\ Len(deployments) = 1
    /\ waiter.maxAttempts >= 3
    /\ waiter.attempts = waiter.maxAttempts

\* C9: the maxAttempts handed to the waiter is timeoutMinutes * 60 / 15 rounded
\* to the nearest integer, a tie going up, for every timeout, the default one
\* included; for a whole number m of minutes it is 4 * m, and 20 for 5 minutes.
C9_MaxAttempts ==
    waiter.started =>
        LET t == taskParameters.timeoutInMins
            d == TimeoutDenominator
            n == waiter.maxAttempts
        IN  /\ 2 * 15 * d * n <= 2 * 60 * t + 15 * d
            /\ 2 * 60 * t + 15 * d < 2 * 15 * d * (n + 1)
            /\ t % d = 0 => n = 4 * (t \div d)
            /\ t = 5 * d => n = 20
            /\ t = defaultTimeoutInMins * d => n = 4 * defaultTimeoutInMins

\* a wait was started with a timeout of 5 minutes
C9_Witness ==
    /\ waiter.started
    /\ taskParameters.timeoutInMins = 5 * TimeoutDenominator
    /\ waiter.maxAttempts = 20

\* execute() is past verifyResourcesExist() and the switch
PastSwitch ==
    /\ pc \notin {"getApplication", "getDeploymentGroup", "headObject"}
    /\ calls # <<>>
    /\ ~(calls[Len(calls)].op \in ProbeOps /\ ~calls[Len(calls)].ok)

\* C10: a run takes at most one of the two revision paths; the upload path is
\* taken exactly by the runs with a workspace source that reach the switch, the
\* given-key path exactly by those with an S3 source; only a run on the upload
\* path inspects, archives or uploads; a run that calls createDeployment took
\* exactly one path.
C10_ExactlyOnePath ==
    /\ Cardinality(revisionPaths) <= 1
    /\ "uploadBundle" \in revisionPaths <=>
         PastSwitch /\ taskParameters.deploymentRevisionSource = revisionSourceFromWorkspace
    /\ "bundleKey" \in revisionPaths <=>
         PastSwitch /\ taskParameters.deploymentRevisionSource = revisionSourceFromS3
    /\ statted # <<>> \/ uploads # <<>> => revisionPaths = {"uploadBundle"}
    /\ "bundleKey" \in revisionPaths => bundleKey = taskParameters.bundleKey
    /\ deployments # <<>> => Cardinality(revisionPaths) = 1

\* a deployment of an S3 revision, which took the given key and uploaded nothing
C10_Witness ==
    /\ deployments # <<>>
    /\ revisionPaths = {"bundleKey"}
    /\ uploads = <<>>

\* the part of a path after its last separator
LastComponent(p) ==
    CHOOSE c \in {SubSeq(p, k, Len(p)) : k \in 1..(Len(p) + 1)} :
        /\ \A i \in 1..Len(c) : c[i] # "/"
        /\ Len(c) < Len(p) => p[Len(p) - Len(c)] = "/"

\* t is the extension of key: what follows the last "." of the last component,
\* when that "." is neither its first nor its last character
IsExtensionOf(t, key) ==
    \E c \in {LastComponent(key)} :
      \E k \in 2..(Len(c) - 1) :
          /\ c[k] = "."
          /\ \A i \in (k + 1)..Len(c) : c[i] # "."
          /\ t = SubSeq(c, k + 1, Len(c))

HasExtension(key) ==
    \E c \in {LastComponent(key)} :
      \E k \in 2..(Len(c) - 1) :
          /\ c[k] = "."
          /\ \A i \in (k + 1)..Len(c) : c[i] # "."

LowerCaseOf(t, u) ==
    /\ Len(t) = Len(u)
    /\ \A i \in 1..Len(t) :
         \/ t[i] = u[i] /\ u[i] \notin {"A", "G", "I", "P", "R", "T", "Z"}
         \/ <<u[i], t[i]>> \in {<<"A", "a">>, <<"G", "g">>, <<"I", "i">>, <<"P", "p">>,
                                 <<"R", "r">>, <<"T", "t">>, <<"Z", "z">>}

\* C11: the bundleType of every createDeployment request is the extension of
\* the request's key in lower case and without the ".", and "zip" when the key
\* has no extension: bundle.tar gives tar, bundle.TGZ gives tgz, bundle gives
\* zip, and a key that ends in "." gives zip.
C11_BundleTypeFromKey ==
    \A i \in 1..Len(deployments) :
        LET key == deployments[i].request.key
            type == deployments[i].request.bundleType
        IN  /\ HasExtension(key) =>
                 \E e \in {SubSeq(key, k, Len(key)) : k \in 1..Len(key)} :
                     LowerCaseOf(type, e) /\ IsExtensionOf(e, key)
            /\ ~HasExtension(key) => type = <<"z", "i", "p">>
            /\ key = <<"b", "u", "n", "d", "l", "e", ".", "t", "a", "r">>
                 => type = <<"t", "a", "r">>
            /\ key = <<"b", "u", "n", "d", "l", "e", ".", "T", "G", "Z">>
                 => type = <<"t", "g", "z">>
            /\ key = <<"b", "u", "n", "d", "l", "e">> => type = <<"z", "i", "p">>
            /\ key[Len(key)] = "." => type = <<"z", "i", "p">>

\* a deployment of the key bundle.TGZ
C11_Witness ==
    /\ deployments # <<>>
    /\ deployments[1].request.key = <<"b", "u", "n", "d", "l", "e", ".", "T", "G", "Z">>
    /\ deployments[1].request.bundleType = <<"t", "g", "z">>

\* C12: the key of every upload is the last component of the uploaded file's
\* path, after "<prefix>/" when a prefix is configured; without the prefix it
\* holds no separator, so no directory of the local path; prefix p and archive
\* app.v123.zip give p/app.v123.zip.
C12_UploadKeyIsBasename ==
    \A i \in 1..Len(uploads) :
        LET key == uploads[i].request.Key
            base == LastComponent(uploads[i].request.Body)
            prefix == taskParameters.bundlePrefix
        IN  /\ base # <<>>
            /\ prefix = <<>> => key = base
            /\ prefix # <<>> => key = prefix \o <<"/">> \o base
            /\ \A k \in 1..Len(key) : key[k] = "/" => prefix # <<>> /\ k = Len(prefix) + 1
            /\ prefix = <<"p">> /\ autoCreatedArchive
                 /\ archiveName = <<"/", "t", "/", "a", "p", "p", ".", "v", "1", "2", "3",
                                    ".", "z", "i", "p">>
                 => key = <<"p", "/", "a", "p", "p", ".", "v", "1", "2", "3",
                            ".", "z", "i", "p">>

\* the archive app.v123.zip was uploaded under the prefix p
C12_Witness ==
    /\ uploads # <<>>
    /\ uploads[1].ok
    /\ uploads[1].request.Key = <<"p", "/", "a", "p", "p", ".", "v", "1", "2", "3",
                                  ".", "z", "i", "p">>

\* the error execute() rejects with when the call op throws
StageError(op) ==
    CASE op \in ProbeOps -> ProbeError(op).type
      [] op = "stats" -> "StatsError"
      [] op = "createDeploymentArchive" -> "ZipError"
      [] op = "upload" -> "UploadError"
      [] op = "unlinkSync" -> "UnlinkError"
      [] op = "createDeployment" -> "CreateDeploymentError"
      [] OTHER -> "none"

\* C13: a call that throws is the last call of the run and execute() has
\* rejected with that call's error: after a failed archive creation nothing is
\* uploaded, after a failed upload createDeployment is not called, after a
\* failed createDeployment no wait is started and no output variable set.
C13_FirstFailureEndsRun ==
    \A i \in 1..Len(calls) :
        ~calls[i].ok =>
            /\ i = Len(calls)
            /\ pc = "failed"
            /\ error.type = StageError(calls[i].op)
            /\ calls[i].op = "createDeploymentArchive" => uploads = <<>> /\ deployments = <<>>
            /\ calls[i].op = "upload" =>
                 deployments = <<>> /\ ~waiter.started /\ taskVariables = <<>>
            /\ calls[i].op = "createDeployment" =>
                 /\ ~waiter.started /\ waiter.attempts = 0
                 /\ taskVariables = <<>>
                 /\ deploymentId = ""

\* createDeployment threw in a run with a configured output variable
C13_Witness ==
    /\ calls # <<>>
    /\ calls[Len(calls)] = Call("createDeployment", FALSE)
    /\ taskParameters.outputVariable # <<>>
    /\ error.type = "CreateDeploymentError"

\* the probes among the calls, in order
RECURSIVE ProbesOf(_)
ProbesOf(cs) ==
    IF cs = <<>> THEN <<>>
    ELSE IF Head(cs).op \in ProbeOps THEN <<Head(cs).op>> \o ProbesOf(Tail(cs))
    ELSE ProbesOf(Tail(cs))

\* C14: the probes are issued in the order getApplication, getDeploymentGroup,
\* headObject; headObject is issued for the S3 source only, and always before
\* an S3 run gets past the probes; a failing probe ends the run with its own
\* error, the three errors being different, and no probe follows it.
C14_ProbesInOrder ==
    /\ \E n \in 0..3 :
         ProbesOf(calls) = SubSeq(<<"getApplication", "getDeploymentGroup", "headObject">>, 1, n)
    /\ (\E i \in 1..Len(calls) : calls[i].op = "headObject")
         => taskParameters.deploymentRevisionSource = revisionSourceFromS3
    /\ PastSwitch /\ taskParameters.deploymentRevisionSource = revisionSourceFromS3
         => Call("headObject", TRUE) \in {calls[i] : i \in 1..Len(calls)}
    /\ \A i \in 1..Len(calls) :
         calls[i].op \in ProbeOps /\ ~calls[i].ok =>
             /\ i = Len(calls)
             /\ error = ProbeError(calls[i].op)
             /\ error.type =
                  CASE calls[i].op = "getApplication" -> "ApplicationDoesNotExist"
                    [] calls[i].op = "getDeploymentGroup" -> "DeploymentGroupDoesNotExist"
                    [] OTHER -> "RevisionBundleDoesNotExist"

\* the object of an S3 revision does not exist
C14_Witness ==
    /\ Len(calls) = 3
    /\ calls[3] = Call("headObject", FALSE)
    /\ error.type = "RevisionBundleDoesNotExist"

\* C15: when the workspace bundle path is a file, no archive is created and
\* the file is never deleted, whatever the upload does; in any run at most one
\* file is deleted, and it is the archive that this run created before.
C15_OnlyOwnArchiveDeleted ==
    /\ bundleKind = "file" =>
         /\ \A i \in 1..Len(calls) :
              calls[i].op \notin {"createDeploymentArchive", "unlinkSync"}
         /\ ~autoCreatedArchive
         /\ unlinked = <<>>
         /\ files = InitialFiles
         /\ taskParameters.revisionBundle \in files
    /\ Len(unlinked) <= 1
    /\ InitialFiles \subseteq files
    /\ \A i \in 1..Len(unlinked) :
         /\ autoCreatedArchive
         /\ unlinked[i].path = archiveName
         /\ unlinked[i].path \notin InitialFiles
         /\ unlinked[i].path # taskParameters.revisionBundle
         /\ \E j \in 1..Len(calls) : calls[j] = Call("createDeploymentArchive", TRUE)
         /\ \E t \in Timestamps :
              unlinked[i].path = ArchivePath(taskParameters.applicationName, t)

\* the caller's file was uploaded and is still there
C15_Witness ==
    /\ bundleKind = "file"
    /\ uploads # <<>> /\ uploads[1].ok
    /\ taskParameters.revisionBundle \in files
    /\ pc = "deployRevision"

\* C16: when createDeployment answers without a deployment id, the run does
\* not fail there: deployRevision returns the empty string, the wait is started
\* for the empty id and a configured output variable is set to the empty string.
C16_MissingIdContinues ==
    deployments # <<>> /\ deployments[1].ok /\ deployments[1].id = Undefined =>
        /\ deploymentId = ""
        /\ error.type \in {"none", "DeploymentFailed"}
        /\ pc = "failed" => waiter.result = "error"
        /\ waiter.started => waiter.deploymentId = ""
        /\ taskVariables # <<>> =>
             taskVariables = << <<taskParameters.outputVariable, "">> >>
        /\ waiter.started /\ taskParameters.outputVariable # <<>> => taskVariables # <<>>
        /\ pc \notin {"setOutputVariable", "waitForDeploymentCompletion"} => waiter.started

\* a wait for the empty id, published in the output variable
C16_Witness ==
    /\ deployments # <<>> /\ deployments[1].ok /\ deployments[1].id = Undefined
    /\ waiter.started /\ waiter.deploymentId = "" /\ waiter.attempts >= 1
    /\ taskVariables = << <<taskParameters.outputVariable, "">> >>

\* C18: with the workspace source, every createDeployment request names the
\* bucket and the key of an upload of this run that succeeded.
C18_DeploysWhatWasUploaded ==
    taskParameters.deploymentRevisionSource = revisionSourceFromWorkspace =>
        \A i \in 1..Len(deployments) :
            \E j \in 1..Len(uploads) :
                /\ uploads[j].ok
                /\ uploads[j].request.Bucket = deployments[i].request.bucket
                /\ uploads[j].request.Key = deployments[i].request.key
                /\ ReturnedBefore("upload", Len(calls))

\* a deployment of an uploaded archive under a prefix
C18_Witness ==
    /\ taskParameters.deploymentRevisionSource = revisionSourceFromWorkspace
    /\ taskParameters.bundlePrefix # <<>>
    /\ bundleKind = "dir"
    /\ deployments # <<>> /\ deployments[1].ok
    /\ deployments[1].request.key = uploads[1].request.Key

\* C19: when the upload succeeded and unlinkSync of the archive then throws,
\* uploadBundle logs it as a failed upload and rethrows: execute() has failed
\* with the unlink error, createDeployment is not called although the object
\* was uploaded, and the archive still exists.
C19_UnlinkFailureAbortsRun ==
    \A i \in 1..Len(unlinked) :
        ~unlinked[i].ok =>
            /\ uploads # <<>> /\ uploads[1].ok
            /\ pc = "failed"
            /\ error = Err("UnlinkError", <<archiveName>>, "unlink")
            /\ "BundleUploadFailed" \in console
            /\ calls[Len(calls)] = Call("unlinkSync", FALSE)
            /\ bundleKey = <<>>
            /\ deployments = <<>>
            /\ ~waiter.started
            /\ taskVariables = <<>>
            /\ archiveName \in files

\* the archive was uploaded and could not be deleted
C19_Witness ==
    /\ unlinked # <<>> /\ ~unlinked[1].ok
    /\ uploads[1].ok
    /\ pc = "failed"

\* execute() has settled
Terminated == pc \in {"done", "failed"}

\* C17: when every call returns, every run of execute() settles, resolved or
\* rejected with one error.  The wait ends on success, on a reported failure or
\* with the attempts used up, never after more than maxAttempts polls; a run is
\* rejected only by a call that threw, by the unknown revision source, or by
\* the waiter's error, and is resolved only after the waiter saw success.
C17_RunSettles ==
    /\ <>Terminated
    /\ [](/\ waiter.attempts <= waiter.maxAttempts \/ waiter.attempts = 0
          /\ waiter.result = "error" =>
               \/ waiter.cause = "ResourceNotReady: Failed"
               \/ waiter.attempts >= waiter.maxAttempts
          /\ waiter.result = "success" => waiter.attempts >= 1
          /\ (pc = "failed") <=> (error # NoError)
          /\ pc = "failed" =>
               \/ calls # <<>> /\ ~calls[Len(calls)].ok
               \/ error.type = "UnknownRevisionSource"
               \/ error.type = "DeploymentFailed" /\ waiter.result = "error"
          /\ pc = "done" => waiter.result = "success" /\ \A i \in 1..Len(calls) : calls[i].ok)

\* a run resolved on the last attempt of a wait of several attempts
C17_Witness ==
    /\ pc = "done"
    /\ waiter.maxAttempts >= 4
    /\ waiter.attempts = waiter.maxAttempts

====
